---- MODULE Spec2Model ----
(***************************************************************************)
(* Model of the S3 storage backend of drone-cache                          *)
(* (storage/backend/s3/s3.go): New, Backend.Get, Backend.Put and           *)
(* Backend.Exists, together with the part of the object store they talk    *)
(* to (objects by key, the bucket's lifecycle configuration).              *)
(*                                                                         *)
(* One caller issues calls one after the other.  Every Get spawns a        *)
(* transfer goroutine that keeps running after Get has returned.  Remote   *)
(* calls are atomic; their outcome is drawn from the answers the store     *)
(* can give in the current state (a transport failure is always among      *)
(* them).  The store's own execution of lifecycle rules (the deletion of   *)
(* expired objects) is not part of the model.                              *)
(***************************************************************************)
EXTENDS Integers, Sequences, FiniteSets, TLC

\* ------------------------------------------------------------- bounds
MaxLen == 2            \* longest object content, in bytes
MaxTime == 2           \* the clock runs from 1 to MaxTime

Keys == {"k1", "k2"}
GetIds == {"g1"}
TTLs == {"", "1h", "soon"}

\* Object contents: the byte at position i is i, so that contents of
\* different lengths differ and a change of order shows.
Contents == {[i \in 1..n |-> i] : n \in 0..MaxLen}

\* ----------------------------------------------------- values
ZeroTime == 0                        \* var expiresAt time.Time
NoObj == <<0>>                       \* no object under the key
NoGet == "none"

NoErr == [aws |-> FALSE, code |-> "nil"]
AwsErr(c) == [aws |-> TRUE, code |-> c]           \* an awserr.Error
PlainErr == [aws |-> FALSE, code |-> "net"]       \* an error that is no awserr.Error

NIL == [msg |-> "nil", cause |-> NoErr]
CtxErr == [msg |-> "context canceled", cause |-> NoErr]
Wrap(msg, cause) == [msg |-> msg, cause |-> cause]

NilPtr == [set |-> FALSE, val |-> ""]
Ptr(s) == [set |-> TRUE, val |-> s]

ErrCodeNoSuchKey == "NoSuchKey"

VARIABLES b, now, store, lifecycle, call, gets, lastOk, lastUp, built

vars == <<b, now, store, lifecycle, call, gets, lastOk, lastUp, built>>

\* ----------------------------------------------------- construction
ParseDuration(s) ==
  IF s = "1h" THEN [ok |-> TRUE, d |-> 1]
  ELSE IF s = "2h" THEN [ok |-> TRUE, d |-> 2]
  ELSE [ok |-> FALSE, d |-> 0]

NoBackend == [st |-> "unbuilt", bucket |-> "", acl |-> "", encryption |-> "",
              expiresAt |-> ZeroTime]

\* Faulty variant of NewBackend: the parse error of the TTL is dropped.
NewBackendAnyTTL(ttl, t) ==
  [st |-> "ready", bucket |-> "bucket", acl |-> "private", encryption |-> "",
   expiresAt |-> IF ttl # "" THEN t + ParseDuration(ttl).d ELSE ZeroTime]

NewBackend(ttl, t) ==
  IF ttl # "" /\ ~ParseDuration(ttl).ok
  THEN [NoBackend EXCEPT !.st = "failed"]
  ELSE [st |-> "ready", bucket |-> "bucket", acl |-> "private", encryption |-> "",
        expiresAt |-> IF ttl # "" THEN t + ParseDuration(ttl).d ELSE ZeroTime]

NoResp == [ok |-> FALSE, etag |-> NilPtr, err |-> NoErr]

IdleCall == [op |-> "none", pc |-> "idle", key |-> "k1", content |-> <<>>,
             done |-> FALSE, fault |-> FALSE, res |-> NIL, found |-> FALSE,
             g |-> NoGet, reqs |-> <<>>, resp |-> NoResp,
             upOk |-> FALSE, lc |-> "none", sent |-> {}, before |-> {}]

FreshGet == [gpc |-> "unused", key |-> "k1", body |-> <<>>, sink |-> <<>>,
             open |-> FALSE, opened |-> FALSE, closed |-> FALSE, err |-> NIL,
             done |-> FALSE, fault |-> FALSE, returned |-> FALSE, res |-> NIL,
             reqs |-> <<>>]

\* The call of New: the TTL it was given and the value time.Now() gave at
\* line 62, which is read only when the TTL is set and parses.
NotBuilt == [ttl |-> "", at |-> ZeroTime]

Init ==
  /\ b = NoBackend
  /\ now = 1
  /\ store = [k \in Keys |-> NoObj]
  /\ lifecycle = {}
  /\ call = IdleCall
  /\ gets = [g \in GetIds |-> FreshGet]
  /\ lastOk = [k \in Keys |-> NoObj]
  /\ lastUp = [k \in Keys |-> NoObj]
  /\ built = NotBuilt

Ready == b.st = "ready"
\* The caller is between two calls.  A call starts once the transfer
\* goroutine of the previous Get has ended.
Idle == call.pc = "idle" /\ \A g \in GetIds : gets[g].gpc \in {"unused", "done"}

New(ttl) ==
  /\ b.st = "unbuilt"
  /\ b' = NewBackend(ttl, now)
  /\ built' = [ttl |-> ttl,
               at |-> IF ttl # "" /\ ParseDuration(ttl).ok THEN now ELSE ZeroTime]
  /\ UNCHANGED <<now, store, lifecycle, call, gets, lastOk, lastUp>>

Tick ==
  /\ call.pc = "idle"
  /\ now < MaxTime
  /\ now' = now + 1
  /\ UNCHANGED <<b, store, lifecycle, call, gets, lastOk, lastUp, built>>

\* ----------------------------------------------------- the store
\* GetObjectWithContext: the answers the store can give for key.
GetObjectResponses(key, done) ==
  (IF store[key] = NoObj
   THEN {[ok |-> FALSE, body |-> <<>>, err |-> AwsErr(ErrCodeNoSuchKey), fault |-> FALSE]}
   ELSE {[ok |-> TRUE, body |-> store[key], err |-> NoErr, fault |-> FALSE]})
  \cup {[ok |-> FALSE, body |-> <<>>, err |-> PlainErr, fault |-> TRUE]}
  \cup (IF done
        THEN {[ok |-> FALSE, body |-> <<>>, err |-> AwsErr("RequestCanceled"), fault |-> FALSE]}
        ELSE {})

\* ----------------------------------------------------- Get
\* The caller: builds the input, makes errCh, starts the goroutine and
\* reaches the select statement.
GetCall(g, key) ==
  /\ Ready /\ Idle
  /\ gets[g].gpc \in {"unused", "done"}
  /\ gets' = [h \in GetIds |-> IF h = g
                                THEN [FreshGet EXCEPT !.gpc = "fetch", !.key = key]
                                ELSE FreshGet]
  /\ call' = [IdleCall EXCEPT !.op = "Get", !.pc = "select", !.key = key, !.g = g]
  /\ UNCHANGED <<b, now, store, lifecycle, lastOk, lastUp, built>>

Running(g) == call.pc # "crashed" /\ gets[g].gpc \notin {"unused", "done"}

\* Faulty variant of GoFetch: a failed fetch is tried a second time.
GoFetchRetry(g) ==
  /\ Running(g) /\ gets[g].gpc = "fetch"
  /\ \E r \in GetObjectResponses(gets[g].key, gets[g].done) :
       gets' = [gets EXCEPT ![g] =
         IF r.ok
         THEN [@ EXCEPT !.gpc = "copy", !.body = r.body, !.open = TRUE, !.opened = TRUE,
                        !.reqs = Append(@, "get")]
         ELSE IF gets[g].reqs = <<>>
         THEN [@ EXCEPT !.reqs = Append(@, "get")]
         ELSE [@ EXCEPT !.gpc = "send", !.err = Wrap("get the object", r.err),
                        !.fault = r.fault, !.reqs = Append(@, "get")]]
  /\ UNCHANGED <<b, now, store, lifecycle, call, lastOk, lastUp, built>>

\* out, err := b.client.GetObjectWithContext(ctx, in)
GoFetch(g) ==
  /\ Running(g) /\ gets[g].gpc = "fetch"
  /\ \E r \in GetObjectResponses(gets[g].key, gets[g].done) :
       gets' = [gets EXCEPT ![g] =
         IF r.ok
         THEN [@ EXCEPT !.gpc = "copy", !.body = r.body, !.open = TRUE, !.opened = TRUE,
                        !.reqs = Append(@, "get")]
         ELSE [@ EXCEPT !.gpc = "send", !.err = Wrap("get the object", r.err),
                        !.fault = r.fault, !.reqs = Append(@, "get")]]
  /\ UNCHANGED <<b, now, store, lifecycle, call, lastOk, lastUp, built>>

\* Faulty variant of CopyStep: the loop writes the first byte again.
CopyStepFirstByte(sink, body) == Append(sink, body[1])

\* One round of io.Copy's loop: the next byte of the body goes to the sink.
CopyStep(sink, body) == Append(sink, body[Len(sink) + 1])

GoCopy(g) ==
  /\ Running(g) /\ gets[g].gpc = "copy"
  /\ Len(gets[g].sink) < Len(gets[g].body)
  /\ gets' = [gets EXCEPT ![g].sink = CopyStep(gets[g].sink, gets[g].body)]
  /\ UNCHANGED <<b, now, store, lifecycle, call, lastOk, lastUp, built>>

\* Faulty variant of GoCopyEOF: the body is left open, the channel closed.
GoCopyEOFNoClose(g) ==
  /\ Running(g) /\ gets[g].gpc = "copy"
  /\ Len(gets[g].sink) = Len(gets[g].body)
  /\ gets' = [gets EXCEPT ![g].gpc = "closeCh"]
  /\ UNCHANGED <<b, now, store, lifecycle, call, lastOk, lastUp, built>>

\* io.Copy reads EOF and returns nil: the function ends, its defers run.
GoCopyEOF(g) ==
  /\ Running(g) /\ gets[g].gpc = "copy"
  /\ Len(gets[g].sink) = Len(gets[g].body)
  /\ gets' = [gets EXCEPT ![g].gpc = "closeBody"]
  /\ UNCHANGED <<b, now, store, lifecycle, call, lastOk, lastUp, built>>

\* The causes io.Copy can fail with: a transport or sink failure at any
\* time, the cancellation of the request's context once it is cancelled.
CopyFailures(done) ==
  {[err |-> PlainErr, fault |-> TRUE]}
  \cup (IF done THEN {[err |-> AwsErr("RequestCanceled"), fault |-> FALSE]} ELSE {})

GoCopyFail(g) ==
  /\ Running(g) /\ gets[g].gpc = "copy"
  /\ \E f \in CopyFailures(gets[g].done) :
       gets' = [gets EXCEPT ![g] =
         [@ EXCEPT !.gpc = "send", !.err = Wrap("copy the object", f.err),
                   !.fault = f.fault]]
  /\ UNCHANGED <<b, now, store, lifecycle, call, lastOk, lastUp, built>>

\* Where the goroutine goes once its send on errCh has been received: it
\* returns and its deferred calls run, last registered first.
AfterSend(gr) == IF gr.open THEN "closeBody" ELSE "closeCh"

Parked(g) == call.op = "Get" /\ call.g = g /\ call.pc = "parked"

\* errCh <- err while the caller is parked in the select: direct hand-off.
GoDeliver(g) ==
  /\ Running(g) /\ gets[g].gpc = "send"
  /\ Parked(g)
  /\ call' = [call EXCEPT !.pc = "woken", !.res = gets[g].err]
  /\ gets' = [gets EXCEPT ![g].gpc = AfterSend(gets[g])]
  /\ UNCHANGED <<b, now, store, lifecycle, lastOk, lastUp, built>>

\* defer internal.CloseWithErrLogf(b.logger, out.Body, ...)
GoCloseBody(g) ==
  /\ Running(g) /\ gets[g].gpc = "closeBody"
  /\ gets' = [gets EXCEPT ![g] = [@ EXCEPT !.open = FALSE, !.gpc = "closeCh"]]
  /\ UNCHANGED <<b, now, store, lifecycle, call, lastOk, lastUp, built>>

\* defer close(errCh): a caller parked in the select receives the zero value.
GoCloseCh(g) ==
  /\ Running(g) /\ gets[g].gpc = "closeCh"
  /\ gets' = [gets EXCEPT ![g] = [@ EXCEPT !.closed = TRUE, !.gpc = "done"]]
  /\ call' = IF Parked(g) THEN [call EXCEPT !.pc = "woken", !.res = NIL] ELSE call
  /\ UNCHANGED <<b, now, store, lifecycle, lastOk, lastUp, built>>

\* Faulty variant of SelectReady: a select that waits for errCh alone.
SelectReadyNoDone(gr, done) ==
  (IF gr.gpc = "send" THEN {[ch |-> "errCh", res |-> gr.err, recv |-> TRUE]} ELSE {})
  \cup (IF gr.closed THEN {[ch |-> "errCh", res |-> NIL, recv |-> FALSE]} ELSE {})

\* The cases of the select statement that can proceed.
SelectReady(gr, done) ==
  (IF gr.gpc = "send" THEN {[ch |-> "errCh", res |-> gr.err, recv |-> TRUE]} ELSE {})
  \cup (IF gr.closed THEN {[ch |-> "errCh", res |-> NIL, recv |-> FALSE]} ELSE {})
  \cup (IF done THEN {[ch |-> "ctx.Done", res |-> CtxErr, recv |-> FALSE]} ELSE {})

\* The caller evaluates the select: one of the ready cases, chosen by the
\* runtime, or none and the caller parks.
GetSelect ==
  /\ call.op = "Get" /\ call.pc = "select"
  /\ LET g == call.g
         ready == SelectReady(gets[g], call.done)
     IN IF ready = {}
        THEN /\ call' = [call EXCEPT !.pc = "parked"]
             /\ gets' = gets
        ELSE \E c \in ready :
               /\ call' = [call EXCEPT !.pc = "woken", !.res = c.res]
               /\ gets' = IF c.recv
                          THEN [gets EXCEPT ![g].gpc = AfterSend(gets[g])]
                          ELSE gets
  /\ UNCHANGED <<b, now, store, lifecycle, lastOk, lastUp, built>>

\* return err / return ctx.Err()
GetReturn ==
  /\ call.op = "Get" /\ call.pc = "woken"
  /\ call' = [call EXCEPT !.pc = "idle"]
  /\ gets' = [gets EXCEPT ![call.g] = [@ EXCEPT !.returned = TRUE, !.res = call.res]]
  /\ UNCHANGED <<b, now, store, lifecycle, lastOk, lastUp, built>>

\* The caller's cancellation signal fires during a call.
Cancel ==
  /\ call.pc \notin {"idle", "crashed"}
  /\ ~call.done
  /\ call' = [call EXCEPT !.done = TRUE,
                          !.pc = IF call.pc = "parked" THEN "woken" ELSE @,
                          !.res = IF call.pc = "parked" THEN CtxErr ELSE @]
  /\ gets' = IF call.op = "Get" THEN [gets EXCEPT ![call.g].done = TRUE] ELSE gets
  /\ UNCHANGED <<b, now, store, lifecycle, lastOk, lastUp, built>>

Goroutine(g) ==
  \/ GoFetch(g)
  \/ GoCopy(g)
  \/ GoCopyEOF(g)
  \/ GoCopyFail(g)
  \/ GoDeliver(g)
  \/ GoCloseBody(g)
  \/ GoCloseCh(g)

\* ----------------------------------------------------- Put
UploadInput(p, r) ==
  [Bucket |-> b.bucket, Key |-> p, ACL |-> b.acl, Body |-> r,
   ServerSideEncryption |-> IF b.encryption # "" THEN Ptr(b.encryption) ELSE NilPtr]

\* uploader.UploadWithContext: the outcomes of the upload.  It fails with
\* the cancellation when the context is cancelled before or during it.
UploadResponses ==
  {[ok |-> TRUE, err |-> NoErr, fault |-> FALSE, cancel |-> FALSE],
   [ok |-> FALSE, err |-> PlainErr, fault |-> TRUE, cancel |-> FALSE],
   [ok |-> FALSE, err |-> AwsErr("RequestCanceled"), fault |-> FALSE, cancel |-> TRUE]}

\* The object store after a successful upload of in.
StoreAfterUpload(in) == [store EXCEPT ![in.Key] = in.Body]

\* Faulty variant of PutResult: the failure is logged and swallowed.
PutResultSwallowed(r) == NIL

\* What Put returns for the answer r of a remote call.
PutResult(r) == IF r.ok THEN NIL ELSE Wrap("put the object", r.err)

\* Faulty variant of AfterUpload: Put goes on after a failed upload.
AfterUploadAlways(u) == "lifecycle"

\* Where Put goes with the answer u of the upload: it returns at once
\* when the upload failed (lines 127-129).
AfterUpload(u) == IF u.ok THEN "lifecycle" ELSE "idle"

\* Put up to the return of the upload (lines 112-129).
PutUpload(p, r) ==
  /\ Ready /\ Idle
  /\ \E u \in UploadResponses :
       LET in == UploadInput(p, r)
           c0 == [IdleCall EXCEPT !.op = "Put", !.key = p, !.content = r,
                                  !.done = u.cancel, !.fault = u.fault,
                                  !.reqs = <<"upload">>, !.before = lifecycle,
                                  !.upOk = u.ok, !.pc = AfterUpload(u)]
       IN IF u.ok
          THEN /\ store' = StoreAfterUpload(in)
               /\ lastUp' = [lastUp EXCEPT ![p] = r]
               /\ call' = c0
          ELSE /\ store' = store
               /\ lastUp' = lastUp
               /\ call' = [c0 EXCEPT !.res = PutResult(u)]
  /\ gets' = [g \in GetIds |-> FreshGet]
  /\ UNCHANGED <<b, now, lifecycle, lastOk, built>>

\* Faulty variant of LifecycleConfiguration: a rule for the whole bucket.
LifecycleConfigurationNoPrefix(p) ==
  {[Prefix |-> "", Date |-> b.expiresAt]}

\* Faulty variant of LifecycleConfiguration: the TTL counted from the time
\* of the Put.
LifecycleConfigurationSliding(p) ==
  {[Prefix |-> p,
    Date |-> IF b.expiresAt = ZeroTime THEN ZeroTime
             ELSE now + (b.expiresAt - built.at)]}

\* The lifecycle configuration Put builds: one rule, for the key.
LifecycleConfiguration(p) ==
  {[Prefix |-> p, Date |-> b.expiresAt]}

\* Faulty variant of LifecycleResponses: the call is bound to the caller's
\* context.
LifecycleResponsesWithContext ==
  IF call.done
  THEN {[ok |-> FALSE, err |-> AwsErr("RequestCanceled")]}
  ELSE {[ok |-> TRUE, err |-> NoErr], [ok |-> FALSE, err |-> AwsErr("AccessDenied")]}

\* PutBucketLifecycleConfiguration: the outcomes of the call.  It takes no
\* context (line 151), so it does not fail with the cancellation.
LifecycleResponses ==
  {[ok |-> TRUE, err |-> NoErr], [ok |-> FALSE, err |-> AwsErr("AccessDenied")]}

\* The bucket's lifecycle configuration after the store accepts conf: the
\* call replaces the configuration the bucket had.
LifecycleAfterPut(conf) == conf

\* Put after the upload (lines 131-156): the lifecycle call is made
\* whatever expiresAt is.
PutLifecycle ==
  /\ call.op = "Put" /\ call.pc = "lifecycle"
  /\ \E l \in LifecycleResponses :
       /\ lifecycle' = IF l.ok
                       THEN LifecycleAfterPut(LifecycleConfiguration(call.key))
                       ELSE lifecycle
       /\ call' = [call EXCEPT !.pc = "idle",
                               !.reqs = Append(@, "lifecycle"),
                               !.sent = LifecycleConfiguration(call.key),
                               !.lc = IF l.ok THEN "ok" ELSE "failed",
                               !.res = PutResult(l)]
       /\ lastOk' = IF l.ok THEN [lastOk EXCEPT ![call.key] = call.content]
                    ELSE lastOk
  /\ UNCHANGED <<b, now, store, gets, lastUp, built>>

\* ----------------------------------------------------- Exists
\* HeadObjectWithContext: the answers the store can give for key.  For a
\* missing object a conforming store fails with NotFound or NoSuchKey; some
\* stores answer success without an ETag.
HeadObjectResponses(key) ==
  (IF store[key] = NoObj
   THEN {[ok |-> FALSE, etag |-> NilPtr, err |-> AwsErr("NotFound"),
          fault |-> FALSE, cancel |-> FALSE],
         [ok |-> FALSE, etag |-> NilPtr, err |-> AwsErr(ErrCodeNoSuchKey),
          fault |-> FALSE, cancel |-> FALSE],
         [ok |-> TRUE, etag |-> Ptr(""), err |-> NoErr,
          fault |-> FALSE, cancel |-> FALSE],
         [ok |-> TRUE, etag |-> NilPtr, err |-> NoErr,
          fault |-> FALSE, cancel |-> FALSE]}
   ELSE {[ok |-> TRUE, etag |-> Ptr("etag"), err |-> NoErr,
          fault |-> FALSE, cancel |-> FALSE]})
  \cup {[ok |-> FALSE, etag |-> NilPtr, err |-> AwsErr("AccessDenied"),
         fault |-> TRUE, cancel |-> FALSE],
        [ok |-> FALSE, etag |-> NilPtr, err |-> PlainErr,
         fault |-> TRUE, cancel |-> FALSE],
        [ok |-> FALSE, etag |-> NilPtr, err |-> AwsErr("RequestCanceled"),
         fault |-> FALSE, cancel |-> TRUE]}

Panic == [found |-> FALSE, err |-> NIL, panic |-> TRUE]
Returns(found, err) == [found |-> found, err |-> err, panic |-> FALSE]

\* The condition of line 168,
\*   awsErr, ok := err.(awserr.Error); ok && awsErr.Code() == s3.ErrCodeNoSuchKey
\*                                        || awsErr.Code() == "NotFound"
\* evaluated left to right: awsErr is nil when the assertion fails, and
\* calling Code() on it panics.
NotFoundCond(err) ==
  IF err.aws /\ err.code = ErrCodeNoSuchKey THEN "true"
  ELSE IF ~err.aws THEN "panic"
  ELSE IF err.code = "NotFound" THEN "true"
  ELSE "false"

\* What Exists does with the answer of the HEAD request (lines 166-177).
ExistsResult(r) ==
  IF ~r.ok
  THEN CASE NotFoundCond(r.err) = "true" -> Returns(FALSE, NIL)
         [] NotFoundCond(r.err) = "panic" -> Panic
         [] OTHER -> Returns(FALSE, Wrap("head the object", r.err))
  ELSE IF ~r.etag.set THEN Panic
       ELSE Returns(r.etag.val # "", NIL)

Exists(p) ==
  /\ Ready /\ Idle
  /\ \E r \in HeadObjectResponses(p) :
       LET x == ExistsResult(r)
       IN call' = [IdleCall EXCEPT !.op = "Exists", !.key = p,
                                   !.pc = IF x.panic THEN "crashed" ELSE "idle",
                                   !.done = r.cancel, !.fault = r.fault,
                                   !.res = x.err, !.found = x.found,
                                   !.reqs = <<"head">>,
                                   !.resp = [ok |-> r.ok, etag |-> r.etag, err |-> r.err]]
  /\ gets' = [g \in GetIds |-> FreshGet]
  /\ UNCHANGED <<b, now, store, lifecycle, lastOk, lastUp, built>>

Next ==
  \/ \E ttl \in TTLs : New(ttl)
  \/ Tick
  \/ \E g \in GetIds, k \in Keys : GetCall(g, k)
  \/ GetSelect
  \/ GetReturn
  \/ Cancel
  \/ \E k \in Keys, c \in Contents : PutUpload(k, c)
  \/ PutLifecycle
  \/ \E k \in Keys : Exists(k)
  \/ \E g \in GetIds : Goroutine(g)

Spec == Init /\ [][Next]_vars

\* The caller's line of execution is scheduled fairly; the transfer may
\* take for ever.
LiveSpec == Spec /\ WF_vars(GetSelect) /\ WF_vars(GetReturn)

\* Caller and transfer goroutine are both scheduled fairly, and every
\* remote call of the transfer ends.
FairSpec == LiveSpec /\ \A g \in GetIds : WF_vars(Goroutine(g))

\* ===================================================== properties
\* The last call has returned (or crashed) and no other call has started.
Returned(op) == call.op = op /\ call.pc \in {"idle", "crashed"}
\* The last call met no cancellation and no transport failure.
Undisturbed == ~call.done /\ ~call.fault /\ (call.op = "Get" => ~gets[call.g].fault)

\* C1 (as claimed): after any sequence of calls, a Get of key k that is not
\* cancelled and meets no transport failure returns nil with exactly the
\* content c of the last Put to k that returned nil in the sink, and such an
\* Exists of k returns (true, nil).
C1_RoundTripLastNilPut ==
  /\ (Returned("Get") /\ Undisturbed /\ lastOk[call.key] # NoObj)
       => (call.pc = "idle" /\ call.res = NIL /\ gets[call.g].sink = lastOk[call.key])
  /\ (Returned("Exists") /\ Undisturbed /\ lastOk[call.key] # NoObj)
       => (call.pc = "idle" /\ call.found /\ call.res = NIL)

\* C1 (amended): the content c is that of the last Put to k whose upload
\* succeeded, whether that Put returned nil or the error of the lifecycle
\* call: a Get of k that is not cancelled and meets no transport failure
\* returns nil with exactly c in the sink, and such an Exists of k returns
\* (true, nil).
C1_RoundTripLastUpload ==
  /\ (Returned("Get") /\ Undisturbed /\ lastUp[call.key] # NoObj)
       => (call.pc = "idle" /\ call.res = NIL /\ gets[call.g].sink = lastUp[call.key])
  /\ (Returned("Exists") /\ Undisturbed /\ lastUp[call.key] # NoObj)
       => (call.pc = "idle" /\ call.found /\ call.res = NIL)

\* A Get returned nil with the full content of an object whose last upload
\* belongs to a Put that failed after it, over an older successful Put.
C1_Witness ==
  /\ Returned("Get") /\ Undisturbed /\ call.res = NIL
  /\ Len(gets[call.g].sink) = MaxLen
  /\ gets[call.g].sink = lastUp[call.key]
  /\ lastOk[call.key] \notin {NoObj, lastUp[call.key]}

\* C2: Exists of a key that was never stored returns (false, nil), whatever
\* calls were made before, when the probe meets no cancellation and no
\* transport failure.
C2_NeverStoredIsFalse ==
  (Returned("Exists") /\ Undisturbed /\ lastUp[call.key] = NoObj)
    => (call.pc = "idle" /\ ~call.found /\ call.res = NIL)

\* C3: once the cancellation signal has fired during a Get, the Get
\* returns, under fair scheduling of the caller alone: the fetch and the
\* copy need not end.
C3_CancelledGetReturns ==
  (call.op = "Get" /\ call.pc # "idle" /\ call.done) ~> (call.op = "Get" /\ call.pc = "idle")

\* A Get has returned the cancellation error while its transfer is still
\* fetching or copying.
C3_Witness ==
  /\ Returned("Get") /\ call.done /\ call.res = CtxErr
  /\ gets[call.g].gpc \in {"fetch", "copy"}

\* C4: when the select of Get resolves after the cancellation signal has
\* fired, that is the signal fired before the transfer delivered its
\* result, Get's result is the cancellation error.
C4_CancelFirstWins ==
  [][(call.op = "Get" /\ call.pc \in {"select", "parked"} /\ call.done
        /\ call'.pc = "woken")
      => call'.res = CtxErr]_vars

\* C5: every response body that a Get opened is eventually closed.
C5_BodyEventuallyClosed ==
  \A g \in GetIds : gets[g].open ~> ~gets[g].open

\* C6: without a TTL a Put issues no lifecycle update, the bucket's
\* lifecycle configuration stays as it was, and Put returns nil exactly
\* when the upload succeeded.
C6_NoTTLNoLifecycle ==
  (Ready /\ b.expiresAt = ZeroTime)
    => /\ lifecycle = {}
       /\ call.op = "Put" =>
            /\ \A i \in 1..Len(call.reqs) : call.reqs[i] # "lifecycle"
            /\ call.pc = "idle" => (call.res = NIL <=> call.upOk)

\* The rule Put registers for key p.
RuleFor(p) == [Prefix |-> p, Date |-> b.expiresAt]

\* C7: with a TTL, a Put whose upload succeeded issues exactly one
\* lifecycle update, after the upload, whose rule has the key as prefix and
\* expiresAt as date; when that Put returns nil the bucket's lifecycle
\* configuration holds the rule.  No update is issued before the upload
\* has succeeded.
C7_OneLifecycleAfterUpload ==
  (call.op = "Put" /\ b.expiresAt # ZeroTime)
    => /\ call.reqs \in {<<"upload">>, <<"upload", "lifecycle">>}
       /\ Len(call.reqs) = 2 => (call.upOk /\ RuleFor(call.key) \in call.sent)
       /\ (call.pc = "idle" /\ call.upOk) => Len(call.reqs) = 2
       /\ (call.pc = "idle" /\ call.upOk /\ call.res = NIL)
            => RuleFor(call.key) \in lifecycle

\* A Put that is not the first one returned nil with a TTL configured.
C7_Witness ==
  /\ Returned("Put") /\ b.expiresAt # ZeroTime /\ call.upOk /\ call.res = NIL
  /\ RuleFor(call.key) \in lifecycle
  /\ \E k \in Keys \ {call.key} : lastOk[k] # NoObj

\* C8: a failed HEAD probe never makes Exists crash or return true; a
\* failure with code NoSuchKey or NotFound yields (false, nil), every other
\* failure yields (false, err) with err wrapping the cause.
C8_ProbeFailureClassified ==
  (call.op = "Exists" /\ ~call.resp.ok)
    => /\ call.pc # "crashed"
       /\ ~call.found
       /\ call.res = IF call.resp.err.aws /\ call.resp.err.code \in {ErrCodeNoSuchKey, "NotFound"}
                     THEN NIL
                     ELSE Wrap("head the object", call.resp.err)

\* C9: a successful HEAD probe makes Exists return (true, nil) when the
\* ETag is a non-empty string and (false, nil) when it is empty or
\* omitted; it never crashes.
C9_NoETagIsFalse ==
  (call.op = "Exists" /\ call.resp.ok)
    => /\ call.pc # "crashed"
       /\ call.res = NIL
       /\ call.found <=> (call.resp.etag.set /\ call.resp.etag.val # "")

\* C10: when the lifecycle call fails after a successful upload, Put
\* returns an error wrapping the cause, has issued the upload and the
\* lifecycle call and nothing else (no delete), the object is stored under
\* the key with the uploaded content, and the bucket's lifecycle
\* configuration is the one before the call.
C10_PartialFailureKeepsObject ==
  (call.op = "Put" /\ call.lc = "failed")
    => /\ call.pc = "idle"
       /\ call.res # NIL /\ call.res.msg = "put the object" /\ call.res.cause # NoErr
       /\ call.reqs = <<"upload", "lifecycle">>
       /\ store[call.key] = call.content /\ lastUp[call.key] = call.content
       /\ lifecycle = call.before

\* A Put failed in the lifecycle call with a TTL configured, the object is
\* stored and the key has no rule.
C10_Witness ==
  /\ Returned("Put") /\ call.lc = "failed" /\ b.expiresAt # ZeroTime
  /\ store[call.key] = call.content /\ Len(call.content) = MaxLen
  /\ RuleFor(call.key) \notin lifecycle

\* The expiration date a Backend built with the TTL "1h" is to use: one
\* hour after its construction.
ExpectedExpiry == IF built.ttl = "1h" THEN built.at + 1 ELSE ZeroTime

C12_NewParsesTTL ==
  /\ built.ttl = "soon" => b = [NoBackend EXCEPT !.st = "failed"]
  /\ built.ttl = "1h" => Ready /\ b.expiresAt = built.at + 1
  /\ (built.ttl = "" /\ b.st # "unbuilt") => Ready /\ b.expiresAt = ZeroTime

\* New has built a Backend with the TTL "1h" after the clock moved.
C12_Witness ==
  Ready /\ built.ttl = "1h" /\ built.at > ZeroTime /\ b.expiresAt > built.at

\* C13: no request is repeated.  A Get issues at most one GET request, an
\* Exists exactly one HEAD request, a Put at most one upload followed by at
\* most one lifecycle update; a request that failed has its failure in the
\* result after that one attempt.
C13_NoRetry ==
  /\ \A g \in GetIds :
       /\ Len(gets[g].reqs) <= 1
       /\ (gets[g].gpc \notin {"unused", "fetch"}) => gets[g].reqs = <<"get">>
       /\ (gets[g].gpc = "send" /\ ~gets[g].opened)
            => gets[g].err.msg = "get the object"
  /\ call.op = "Get" => call.reqs = <<>>
  /\ call.op = "Exists" => call.reqs = <<"head">>
  /\ (call.op = "Exists" /\ call.pc = "idle" /\ ~call.resp.ok)
       => (call.res # NIL \/ ~call.found)
  /\ call.op = "Put" => call.reqs \in {<<"upload">>, <<"upload", "lifecycle">>}
  /\ (call.op = "Put" /\ ~call.upOk)
       => (call.pc = "idle" /\ call.res # NIL /\ call.reqs = <<"upload">>)
  /\ (call.op = "Put" /\ call.lc = "failed")
       => (call.pc = "idle" /\ call.res # NIL /\ call.reqs = <<"upload", "lifecycle">>)

\* A Get has returned the failure of its one GET request, met on a stored
\* key.
C13_Witness ==
  /\ Returned("Get") /\ store[call.key] # NoObj
  /\ gets[call.g].reqs = <<"get">> /\ ~gets[call.g].opened
  /\ call.res = gets[call.g].err /\ call.res # NIL

\* C14: with a TTL, a Put whose context is cancelled after its upload
\* succeeded still issues the lifecycle update, and returns what that update
\* gave: nil, with the rule registered, when it succeeded, the wrapped
\* failure of the update when it failed; never the cancellation.
C14_CancelAfterUploadIgnored ==
  (Returned("Put") /\ b.expiresAt # ZeroTime /\ call.upOk /\ call.done)
    => /\ call.reqs = <<"upload", "lifecycle">>
       /\ call.sent = {RuleFor(call.key)}
       /\ call.lc \in {"ok", "failed"}
       /\ call.lc = "ok" => (call.res = NIL /\ lifecycle = call.sent)
       /\ call.lc = "failed"
            => call.res = Wrap("put the object", AwsErr("AccessDenied"))
       /\ call.res # CtxErr /\ call.res.cause # AwsErr("RequestCanceled")

\* A Put with a TTL was cancelled after its upload and has returned nil.
C14_Witness ==
  /\ Returned("Put") /\ b.expiresAt # ZeroTime /\ call.upOk /\ call.done
  /\ call.res = NIL /\ store[call.key] = call.content

\* A Get of a never stored key, not cancelled, has returned the wrapped
\* failure of the fetch, with nothing written and no body opened.
MissingIsErrorForGet ==
  (Returned("Get") /\ ~call.done /\ lastUp[call.key] = NoObj)
    => /\ call.res # NIL /\ call.res.msg = "get the object"
       /\ gets[call.g].sink = <<>> /\ ~gets[call.g].opened

\* C15: for a key that was never stored and a context that is not
\* cancelled, Get returns a non-nil error wrapping the failure of the fetch,
\* with no byte written and no body opened, while Exists of such a key
\* returns a clean (false, nil).
C15_MissingErrorForGetFalseForExists ==
  MissingIsErrorForGet /\ C2_NeverStoredIsFalse

\* C16: a Put whose upload failed, by a transport failure or by the
\* cancellation, has returned a non-nil error wrapping that failure, has
\* issued the upload alone and no lifecycle update, and the bucket's
\* lifecycle configuration is what it was when the Put was called.
C16_FailedUploadNoLifecycle ==
  (call.op = "Put" /\ ~call.upOk)
    => /\ call.pc = "idle"
       /\ call.res # NIL /\ call.res.msg = "put the object"
       /\ call.res.cause \in {PlainErr, AwsErr("RequestCanceled")}
       /\ call.reqs = <<"upload">> /\ call.sent = {} /\ call.lc = "none"
       /\ lifecycle = call.before

\* A Put's upload failed by the cancellation while the bucket held the
\* rule of an earlier Put, and the Put has returned.
C16_Witness ==
  /\ Returned("Put") /\ ~call.upOk /\ call.done
  /\ call.before # {} /\ lifecycle = call.before
  /\ call.res = Wrap("put the object", AwsErr("RequestCanceled"))

\* C17: with a TTL, a Put that returned nil has added or overwritten the
\* rule of its own key alone: the rules the bucket held for other keys when
\* the Put was called are still there, and so the bucket holds a rule with
\* the date expiresAt for every key a Put has returned nil for.
C17_RulesOfOtherKeysKept ==
  (Ready /\ b.expiresAt # ZeroTime)
    => /\ (Returned("Put") /\ call.res = NIL)
            => /\ RuleFor(call.key) \in lifecycle
               /\ \A r \in call.before : r.Prefix # call.key => r \in lifecycle
       /\ \A k \in Keys : lastOk[k] # NoObj => RuleFor(k) \in lifecycle

\* C18: the transfer goroutine a Get has started ends, whatever the fetch
\* and the copy give and also when the Get has returned by the
\* cancellation, under fair scheduling of caller and goroutine.
C18_GoroutineTerminates ==
  \A g \in GetIds : (gets[g].gpc = "fetch") ~> (gets[g].gpc = "done")

\* C19: once a Get has returned to its caller, no step writes a byte to
\* the sink of that Get.
C19_NoWriteAfterReturn ==
  [][\A g \in GetIds :
       (gets[g].returned /\ gets'[g].returned) => gets'[g].sink = gets[g].sink]_vars

\* C20: when a Get has nil to return, the fetch had succeeded, the whole
\* body is in the sink, the copy gave no error, the body is closed and the
\* goroutine has ended.
C20_NilOnlyAfterWholeTransfer ==
  (call.op = "Get" /\ call.pc \in {"woken", "idle"} /\ call.res = NIL)
    => LET gr == gets[call.g]
       IN /\ gr.reqs = <<"get">> /\ gr.opened
          /\ gr.sink = gr.body /\ gr.body = store[call.key]
          /\ gr.err = NIL
          /\ ~gr.open /\ gr.closed /\ gr.gpc = "done"

\* A Get whose context was cancelled on the way has returned nil with a
\* body of the greatest length in the sink.
C20_Witness ==
  /\ Returned("Get") /\ call.res = NIL /\ call.done
  /\ Len(gets[call.g].sink) = MaxLen /\ ~gets[call.g].open
====
